---- MODULE Spec2Model ----
(***************************************************************************)
(* camtconvert: conversion of a CAMT 053.001.10 statement into 053.001.08. *)
(* The model follows src/src/main.rs: pass 1 of parse_camt_10 (path        *)
(* tracking parser), pass 2 (positional amount correlator), and the        *)
(* writer write_camt_08 with its helpers.                                  *)
(*                                                                         *)
(* Text values are sequences of one-character strings, so that trimming,   *)
(* split_whitespace, starts_with, ends_with and slicing are computed.       *)
(* Element names are strings; Chars gives their characters.                *)
(***************************************************************************)
EXTENDS Integers, Sequences, FiniteSets, TLC

\* ------------------------------------------------------------------------
\* Bounds
\* ------------------------------------------------------------------------
\* Largest number of Bal/Ntry items (or reader errors) in an input document.
MaxItems == 2

\* ------------------------------------------------------------------------
\* Text
\* ------------------------------------------------------------------------
\* The characters of an element name (std::str::from_utf8 of the tag bytes).
Chars(name) ==
  CASE name = "Document" -> <<"D","o","c","u","m","e","n","t">>
    [] name = "BkToCstmrStmt" -> <<"B","k","T","o","C","s","t","m","r","S","t","m","t">>
    [] name = "GrpHdr" -> <<"G","r","p","H","d","r">>
    [] name = "MsgId" -> <<"M","s","g","I","d">>
    [] name = "CreDtTm" -> <<"C","r","e","D","t","T","m">>
    [] name = "Stmt" -> <<"S","t","m","t">>
    [] name = "Id" -> <<"I","d">>
    [] name = "FrToDt" -> <<"F","r","T","o","D","t">>
    [] name = "FrDtTm" -> <<"F","r","D","t","T","m">>
    [] name = "ToDtTm" -> <<"T","o","D","t","T","m">>
    [] name = "Acct" -> <<"A","c","c","t">>
    [] name = "IBAN" -> <<"I","B","A","N">>
    [] name = "Ccy" -> <<"C","c","y">>
    [] name = "Ownr" -> <<"O","w","n","r">>
    [] name = "Nm" -> <<"N","m">>
    [] name = "Bal" -> <<"B","a","l">>
    [] name = "Tp" -> <<"T","p">>
    [] name = "CdOrPrtry" -> <<"C","d","O","r","P","r","t","r","y">>
    [] name = "Cd" -> <<"C","d">>
    [] name = "Amt" -> <<"A","m","t">>
    [] name = "CdtDbtInd" -> <<"C","d","t","D","b","t","I","n","d">>
    [] name = "Dt" -> <<"D","t">>
    [] name = "DtTm" -> <<"D","t","T","m">>
    [] name = "CdtLine" -> <<"C","d","t","L","i","n","e">>
    [] name = "Ntry" -> <<"N","t","r","y">>
    [] name = "BookgDt" -> <<"B","o","o","k","g","D","t">>
    [] name = "BkTxCd" -> <<"B","k","T","x","C","d">>
    [] name = "Prtry" -> <<"P","r","t","r","y">>
    [] name = "AddtlNtryInf" -> <<"A","d","d","t","l","N","t","r","y","I","n","f">>
    [] name = "Chrgs" -> <<"C","h","r","g","s">>
    [] name = "TtlChrgsAndTaxAmt" -> <<"T","t","l","C","h","r","g","s","A","n","d","T","a","x","A","m","t">>
    [] name = "NtryDtls" -> <<"N","t","r","y","D","t","l","s">>
    [] name = "TxDtls" -> <<"T","x","D","t","l","s">>
    [] name = "RltdPties" -> <<"R","l","t","d","P","t","i","e","s">>
    [] name = "CdtrAcct" -> <<"C","d","t","r","A","c","c","t">>
    [] name = "RmtInf" -> <<"R","m","t","I","n","f">>
    [] name = "Strd" -> <<"S","t","r","d">>
    [] name = "RfrdDocInf" -> <<"R","f","r","d","D","o","c","I","n","f">>
    [] name = "LineDtls" -> <<"L","i","n","e","D","t","l","s">>
    [] name = "DuePyblAmt" -> <<"D","u","e","P","y","b","l","A","m","t">>

\* Text literals used by the input documents.
tEUR == <<"E","U","R">>
tCHF == <<"C","H","F">>
tUSD == <<"U","S","D">>
tCLBD == <<"C","L","B","D">>
tOPBD == <<"O","P","B","D">>
tCRDT == <<"C","R","D","T">>
tDBIT == <<"D","B","I","T">>
tDateLong == <<"2","0","2","5","-","0","6","-","2","0","T","0","0",":","0","0",":","0","0","+","0","2",":","0","0">>
tDateFrac == <<"2","0","2","5","-","0","6","-","2","2","T","1","7",":","3","3",":","4","3",".","2","9","Z">>
tDateShort == <<"2","5","-","0","6","-","2","0">>
tDateOnly == <<"2","0","2","5","-","0","6","-","2","1">>
\* "2025-06-2" followed by the letter e with acute accent (written U+00E9
\* here), a character of two bytes in UTF-8: ten characters, eleven bytes.
tDateOdd == <<"2","0","2","5","-","0","6","-","2","U+00E9">>
tAmtBal == <<"1","2","3","4",".","5","6">>
tAmtTx == <<"5","0",".","0","0">>
tAmtNested == <<"7",".","0","0">>
tAmtOther == <<"9",".","9","9">>
tAmtChrg == <<"0",".","3","0">>
tCard == <<"C","A","R","D","0","0","1">>
tSct == <<"S","C","T","-","I","N">>
tInfoRaw == <<" "," ","C","o","f","f","e","e"," "," "," ","s","h","o","p"," "," ">>
tInfoNorm == <<"C","o","f","f","e","e"," ","s","h","o","p">>
tInfoTab == <<"C","o","f","f","e","e","\t","s","h","o","p">>
tStmtId == <<"S","1">>
tIban == <<"C","H","9","3">>
tIbanOther == <<"D","E","8","9">>
tOwner == <<"A","n","n">>
tWs == <<"\n"," "," ">>

IsWs(c) == c \in {" ", "\t", "\n"}

RECURSIVE TrimStart(_)
TrimStart(s) == IF s # <<>> /\ IsWs(Head(s)) THEN TrimStart(Tail(s)) ELSE s

RECURSIVE TrimEnd(_)
TrimEnd(s) ==
  IF s # <<>> /\ IsWs(s[Len(s)]) THEN TrimEnd(SubSeq(s, 1, Len(s) - 1)) ELSE s

\* Reader configuration trim_text(true): both ends of a text are trimmed.
Trim(s) == TrimEnd(TrimStart(s))

\* str::ends_with
EndsWith(s, suffix) ==
  /\ Len(s) >= Len(suffix)
  /\ SubSeq(s, Len(s) - Len(suffix) + 1, Len(s)) = suffix

\* str::starts_with
StartsWith(s, prefix) ==
  /\ Len(s) >= Len(prefix)
  /\ SubSeq(s, 1, Len(prefix)) = prefix

\* current_path.join("/")
RECURSIVE JoinPath(_)
JoinPath(p) ==
  CHOOSE r \in
    {IF v = <<>> THEN <<>>
     ELSE IF Len(v) = 1 THEN Chars(v[1])
     ELSE JoinPath(SubSeq(v, 1, Len(v) \div 2)) \o <<"/">>
            \o JoinPath(SubSeq(v, Len(v) \div 2 + 1, Len(v))) : v \in {p}} :
    TRUE

\* path.ends_with("A/B/C") with the suffix given as its element names.
PathEndsWith(p, names) == EndsWith(JoinPath(p), JoinPath(names))

\* str::split_whitespace: the maximal runs of non-whitespace characters.
RECURSIVE SplitWhitespace(_)
SplitWhitespace(s) ==
  CHOOSE r \in
    {LET WordLen[i \in 0..Len(t)] ==
           IF i < Len(t) /\ ~IsWs(t[i + 1]) THEN WordLen[i + 1] ELSE i
     IN IF t = <<>> THEN <<>>
        ELSE <<SubSeq(t, 1, WordLen[0])>>
               \o SplitWhitespace(SubSeq(t, WordLen[0] + 1, Len(t))) :
       t \in {TrimStart(s)}} : TRUE

\* [&str]::join(" ")
RECURSIVE JoinSpace(_)
JoinSpace(ws) ==
  IF ws = <<>> THEN <<>>
  ELSE IF Len(ws) = 1 THEN ws[1]
  ELSE ws[1] \o <<" ">> \o JoinSpace(Tail(ws))

\* ------------------------------------------------------------------------
\* Input documents: the tokens of the file, before the reader trims text
\* ------------------------------------------------------------------------
Tok(t, name, attrs, text) ==
  [t |-> t, name |-> name, attrs |-> attrs, text |-> text]

S(name) == Tok("Start", name, <<>>, <<>>)
SA(name, ccy) == Tok("Start", name, << <<"Ccy", ccy>> >>, <<>>)
E(name) == Tok("End", name, <<>>, <<>>)
T(text) == Tok("Text", "", <<>>, text)
EmptyA(name, ccy) == Tok("Empty", name, << <<"Ccy", ccy>> >>, <<>>)
Comment == Tok("Comment", "", <<>>, <<>>)
ErrTok == Tok("Err", "", <<>>, <<>>)
EofEv == Tok("Eof", "", <<>>, <<>>)

El(name, text) == <<S(name), T(text), E(name)>>
AmtEl(ccy, text) == <<SA("Amt", ccy), T(text), E("Amt")>>

\* The concatenation of a sequence of sequences (computed by halves; the
\* argument is bound to its value v once).
RECURSIVE Flatten(_)
Flatten(ss) ==
  CHOOSE r \in
    {IF v = <<>> THEN <<>>
     ELSE IF Len(v) = 1 THEN v[1]
     ELSE Flatten(SubSeq(v, 1, Len(v) \div 2))
            \o Flatten(SubSeq(v, Len(v) \div 2 + 1, Len(v))) : v \in {ss}} :
    TRUE

\* A closing balance with every field (the end-to-end example).
balFull ==
  Flatten(<<
    <<S("Bal"), T(tWs), S("Tp"), S("CdOrPrtry")>>,
    El("Cd", tCLBD),
    <<E("CdOrPrtry"), E("Tp")>>,
    AmtEl(tEUR, tAmtBal),
    El("CdtDbtInd", tCRDT),
    <<S("Dt")>>,
    El("DtTm", tDateLong),
    <<E("Dt"), E("Bal")>>
  >>)

\* A balance whose Amt element carries a currency but no text.
balEmptyAmt ==
  Flatten(<<
    <<S("Bal"), S("Tp"), S("CdOrPrtry")>>,
    El("Cd", tOPBD),
    <<E("CdOrPrtry"), E("Tp"), SA("Amt", tCHF), E("Amt")>>,
    El("CdtDbtInd", tDBIT),
    <<S("Dt")>>,
    El("DtTm", tDateShort),
    <<E("Dt"), E("Bal")>>
  >>)

\* A balance with no Amt child of its own, only one below CdtLine.
balNoAmt ==
  Flatten(<<
    <<S("Bal"), S("CdtLine")>>,
    AmtEl(tUSD, tAmtOther),
    <<E("CdtLine"), E("Bal")>>
  >>)

\* The card payment of the end-to-end example, with a nested TxDtls/Amt.
ntryFull ==
  Flatten(<<
    <<S("Ntry")>>,
    AmtEl(tEUR, tAmtTx),
    El("CdtDbtInd", tDBIT),
    <<S("BookgDt")>>,
    El("DtTm", tDateLong),
    <<E("BookgDt")>>,
    <<S("BkTxCd"), S("Prtry")>>,
    El("Cd", tCard),
    <<E("Prtry"), E("BkTxCd")>>,
    <<S("NtryDtls"), S("TxDtls")>>,
    AmtEl(tUSD, tAmtNested),
    <<E("TxDtls"), E("NtryDtls")>>,
    El("AddtlNtryInf", tInfoRaw),
    <<E("Ntry")>>
  >>)

\* The same payment with charges and differently spaced additional info.
ntryChrgs ==
  Flatten(<<
    <<S("Ntry")>>,
    AmtEl(tEUR, tAmtTx),
    El("CdtDbtInd", tDBIT),
    <<S("BookgDt")>>,
    El("DtTm", tDateLong),
    <<E("BookgDt")>>,
    <<S("BkTxCd"), S("Prtry")>>,
    El("Cd", tCard),
    <<E("Prtry"), E("BkTxCd")>>,
    <<S("Chrgs"), SA("TtlChrgsAndTaxAmt", tEUR), T(tAmtChrg),
      E("TtlChrgsAndTaxAmt"), E("Chrgs")>>,
    El("AddtlNtryInf", tInfoTab),
    <<E("Ntry")>>
  >>)

\* A credit transfer without additional info; a comment precedes the
\* amount text.
ntryComment ==
  Flatten(<<
    <<S("Ntry"), SA("Amt", tCHF), Comment, T(tAmtOther), E("Amt")>>,
    El("CdtDbtInd", tCRDT),
    <<S("BkTxCd"), S("Prtry")>>,
    El("Cd", tSct),
    <<E("Prtry"), E("BkTxCd"), E("Ntry")>>
  >>)

\* An entry with a self-closed Amt, a creditor account and a structured
\* remittance amount (an Amt element with a child element).
ntryParties ==
  Flatten(<<
    <<S("Ntry"), EmptyA("Amt", tCHF)>>,
    El("CdtDbtInd", tCRDT),
    <<S("BookgDt")>>,
    El("DtTm", tDateOnly),
    <<E("BookgDt")>>,
    <<S("NtryDtls"), S("TxDtls"), S("RltdPties"), S("CdtrAcct"), S("Id")>>,
    El("IBAN", tIbanOther),
    <<E("Id"), E("CdtrAcct"), E("RltdPties")>>,
    <<S("RmtInf"), S("Strd"), S("RfrdDocInf"), S("LineDtls"), S("Amt"),
      SA("DuePyblAmt", tEUR), T(tAmtNested), E("DuePyblAmt"), E("Amt"),
      E("LineDtls"), E("RfrdDocInf"), E("Strd"), E("RmtInf")>>,
    <<E("TxDtls"), E("NtryDtls")>>,
    El("AddtlNtryInf", tInfoNorm),
    <<E("Ntry")>>
  >>)

\* A balance whose date has a character of more than one byte, and which
\* has a Chrgs element.
balOddDate ==
  Flatten(<<
    <<S("Bal"), S("Tp"), S("CdOrPrtry")>>,
    El("Cd", tCLBD),
    <<E("CdOrPrtry"), E("Tp")>>,
    AmtEl(tCHF, tAmtOther),
    El("CdtDbtInd", tCRDT),
    <<S("Chrgs"), SA("TtlChrgsAndTaxAmt", tEUR), T(tAmtChrg),
      E("TtlChrgsAndTaxAmt"), E("Chrgs")>>,
    <<S("Dt")>>,
    El("DtTm", tDateOdd),
    <<E("Dt"), E("Bal")>>
  >>)

\* Ill-formed markup at which the reader reports an error.
malformed == <<ErrTok>>

Templates ==
  {balFull, balEmptyAmt, balNoAmt, balOddDate, ntryFull, ntryChrgs,
   ntryComment, ntryParties, malformed}

\* The statement header of the source document.
hdrFull ==
  Flatten(<<
    <<S("GrpHdr")>>,
    El("MsgId", tStmtId),
    El("CreDtTm", tDateLong),
    <<E("GrpHdr")>>
  >>)

stmtFull ==
  Flatten(<<
    El("Id", tStmtId),
    El("CreDtTm", tDateFrac),
    <<S("FrToDt")>>,
    El("FrDtTm", tDateLong),
    El("ToDtTm", tDateOnly),
    <<E("FrToDt")>>,
    <<S("Acct"), S("Id")>>,
    El("IBAN", tIban),
    <<E("Id")>>,
    El("Ccy", tCHF),
    <<S("Ownr")>>,
    El("Nm", tOwner),
    <<E("Ownr"), E("Acct")>>
  >>)

Headers == {"full", "none"}

\* The token sequence of the file for a header choice and a list of items.
FileOf(hdr, items) ==
  Flatten(<<
    <<S("Document"), T(tWs), S("BkToCstmrStmt")>>,
    (IF hdr = "full" THEN hdrFull ELSE <<>>),
    <<S("Stmt")>>,
    (IF hdr = "full" THEN stmtFull ELSE <<>>),
    Flatten(items),
    <<E("Stmt"), E("BkToCstmrStmt"), E("Document")>>
  >>)

\* An input document: its header choice, its items and its token sequence.
MkDoc(hdr, items) ==
  [hdr |-> hdr, items |-> items, file |-> FileOf(hdr, items)]

\* The token sequence of a document.
File(d) == d.file

RECURSIVE SeqsUpTo(_, _)
SeqsUpTo(set, n) ==
  IF n = 0 THEN {<<>>}
  ELSE LET shorter == SeqsUpTo(set, n - 1)
       IN shorter \cup {Append(s, x) : s \in shorter, x \in set}

Docs == {MkDoc(h, items) : h \in Headers,
                           items \in SeqsUpTo(Templates, MaxItems)}

\* ------------------------------------------------------------------------
\* Reader (quick_xml::Reader with trim_text(true))
\* ------------------------------------------------------------------------
\* Whitespace-only text produces no event.
RECURSIVE SkipBlank(_, _)
SkipBlank(f, p) ==
  IF p <= Len(f) /\ f[p].t = "Text" /\ Trim(f[p].text) = <<>>
  THEN SkipBlank(f, p + 1)
  ELSE p

\* reader.read_event_into(&mut buf): the next event and the position after.
ReadEvent(f, p) ==
  LET q == SkipBlank(f, p)
  IN IF q > Len(f) THEN [ev |-> EofEv, next |-> q]
     ELSE [ev |-> IF f[q].t = "Text"
                  THEN [f[q] EXCEPT !.text = Trim(@)]
                  ELSE f[q],
           next |-> q + 1]

\* ------------------------------------------------------------------------
\* The statement model (struct Statement, Balance, Transaction)
\* ------------------------------------------------------------------------
\* Balance::default()
BalanceDefault ==
  [balance_type |-> <<>>, amount |-> <<>>, currency |-> <<>>,
   credit_debit_ind |-> <<>>, date |-> <<>>]

\* Transaction::default(); charges is <<>> for None and <<text>> for Some.
TransactionDefault ==
  [amount |-> <<>>, currency |-> <<>>, credit_debit_ind |-> <<>>,
   booking_date |-> <<>>, bank_tx_code |-> <<>>, additional_info |-> <<>>,
   charges |-> <<>>]

\* Statement::default()
StatementDefault ==
  [id |-> <<>>, creation_datetime |-> <<>>, from_datetime |-> <<>>,
   to_datetime |-> <<>>, iban |-> <<>>, currency |-> <<>>,
   owner_name |-> <<>>, balances |-> <<>>, transactions |-> <<>>]

VARIABLES
  doc,                 \* the input file when pass 1 opens it
  doc2,                \* the input file when pass 2 opens it again
  pc,                  \* position of main: pass1, pass2, write_*, done, ...
  pos,                 \* position of the reader in the file
  statement,
  current_balance,
  current_transaction,
  current_path,
  in_balance,
  in_transaction,
  in_charges,
  balance_idx,
  tx_idx,
  out,                 \* the events written to the output file
  windex,              \* position of the writer loops of write_statement
  bal_src,             \* history: file position of the End tag of each
  tx_src,              \*   record pushed by pass 1
  run,                 \* number of the conversion run (1 or 2)
  prev                 \* model and output of the previous run

vars ==
  <<doc, doc2, pc, pos, statement, current_balance, current_transaction,
    current_path, in_balance, in_transaction, in_charges, balance_idx,
    tx_idx, out, windex, bal_src, tx_src, run, prev>>

\* The state of one conversion run at the start of main.
Fresh ==
  /\ pc = "pass1"
  /\ pos = 1
  /\ statement = StatementDefault
  /\ current_balance = BalanceDefault
  /\ current_transaction = TransactionDefault
  /\ current_path = <<>>
  /\ in_balance = FALSE
  /\ in_transaction = FALSE
  /\ in_charges = FALSE
  /\ balance_idx = 0
  /\ tx_idx = 0
  /\ out = <<>>
  /\ windex = 0
  /\ bal_src = <<>>
  /\ tx_src = <<>>

\* The input is any document within the bounds; both passes read the same
\* content.
Init ==
  /\ doc \in Docs
  /\ doc2 = doc
  /\ run = 1
  /\ prev = <<>>
  /\ Fresh

\* ------------------------------------------------------------------------
\* parse_camt_10, pass 1
\* ------------------------------------------------------------------------
Rd1 == ReadEvent(File(doc), pos)

\* A variant in which a Bal or Ntry start tag keeps the accumulator.
P1StartKeep ==
  /\ pc = "pass1"
  /\ Rd1.ev.t = "Start"
  /\ LET name == Rd1.ev.name IN
       /\ current_path' = Append(current_path, name)
       /\ in_balance' = IF name = "Bal" THEN TRUE ELSE in_balance
       /\ in_transaction' = IF name = "Ntry" THEN TRUE ELSE in_transaction
       /\ in_charges' = IF name = "Chrgs" THEN TRUE ELSE in_charges
  /\ pos' = Rd1.next
  /\ UNCHANGED <<doc, doc2, pc, statement, current_balance,
                 current_transaction, balance_idx, tx_idx, out, windex,
                 bal_src, tx_src, run, prev>>

P1Start ==
  /\ pc = "pass1"
  /\ Rd1.ev.t = "Start"
  /\ LET name == Rd1.ev.name IN
       /\ current_path' = Append(current_path, name)
       /\ in_balance' = IF name = "Bal" THEN TRUE ELSE in_balance
       /\ current_balance' =
            IF name = "Bal" THEN BalanceDefault ELSE current_balance
       /\ in_transaction' = IF name = "Ntry" THEN TRUE ELSE in_transaction
       /\ current_transaction' =
            IF name = "Ntry" THEN TransactionDefault ELSE current_transaction
       /\ in_charges' = IF name = "Chrgs" THEN TRUE ELSE in_charges
  /\ pos' = Rd1.next
  /\ UNCHANGED <<doc, doc2, pc, statement, balance_idx, tx_idx, out, windex,
                 bal_src, tx_src, run, prev>>

\* The statement header fields set by a text at path p.
HeaderText(st, p, text) ==
  IF PathEndsWith(p, <<"Stmt", "Id">>) THEN [st EXCEPT !.id = text]
  ELSE IF PathEndsWith(p, <<"Stmt", "CreDtTm">>)
    THEN [st EXCEPT !.creation_datetime = text]
  ELSE IF PathEndsWith(p, <<"FrToDt", "FrDtTm">>)
    THEN [st EXCEPT !.from_datetime = text]
  ELSE IF PathEndsWith(p, <<"FrToDt", "ToDtTm">>)
    THEN [st EXCEPT !.to_datetime = text]
  ELSE IF PathEndsWith(p, <<"Acct", "Id", "IBAN">>)
    THEN [st EXCEPT !.iban = text]
  ELSE IF PathEndsWith(p, <<"Acct", "Ccy">>)
    THEN [st EXCEPT !.currency = text]
  ELSE IF PathEndsWith(p, <<"Acct", "Ownr", "Nm">>)
    THEN [st EXCEPT !.owner_name = text]
  ELSE st

\* The balance fields set by a text at path p.
BalanceText(b, p, text) ==
  IF PathEndsWith(p, <<"Bal", "Tp", "CdOrPrtry", "Cd">>)
    THEN [b EXCEPT !.balance_type = text]
  ELSE IF PathEndsWith(p, <<"Bal", "CdtDbtInd">>)
    THEN [b EXCEPT !.credit_debit_ind = text]
  ELSE IF PathEndsWith(p, <<"Bal", "Dt", "DtTm">>)
    THEN [b EXCEPT !.date = text]
  ELSE b

\* The transaction fields set by a text at path p.
TransactionText(t, p, text, charges) ==
  LET t1 ==
        IF PathEndsWith(p, <<"Ntry", "CdtDbtInd">>)
          THEN [t EXCEPT !.credit_debit_ind = text]
        ELSE IF PathEndsWith(p, <<"Ntry", "BookgDt", "DtTm">>)
          THEN [t EXCEPT !.booking_date = text]
        ELSE IF PathEndsWith(p, <<"Ntry", "BkTxCd", "Prtry", "Cd">>)
          THEN [t EXCEPT !.bank_tx_code = text]
        ELSE IF PathEndsWith(p, <<"Ntry", "AddtlNtryInf">>)
          THEN [t EXCEPT !.additional_info = text]
        ELSE t
  IN IF charges /\ PathEndsWith(p, <<"Chrgs", "TtlChrgsAndTaxAmt">>)
     THEN [t1 EXCEPT !.charges = <<text>>]
     ELSE t1

P1Text ==
  /\ pc = "pass1"
  /\ Rd1.ev.t = "Text"
  /\ LET text == Rd1.ev.text IN
       /\ statement' = HeaderText(statement, current_path, text)
       /\ current_balance' =
            IF in_balance THEN BalanceText(current_balance, current_path, text)
            ELSE current_balance
       /\ current_transaction' =
            IF in_transaction
            THEN TransactionText(current_transaction, current_path, text,
                                 in_charges)
            ELSE current_transaction
  /\ pos' = Rd1.next
  /\ UNCHANGED <<doc, doc2, pc, current_path, in_balance, in_transaction,
                 in_charges, balance_idx, tx_idx, out, windex, bal_src,
                 tx_src, run, prev>>

\* Vec::pop: nothing happens on an empty vector.
Pop(s) == IF s = <<>> THEN s ELSE SubSeq(s, 1, Len(s) - 1)

\* A variant that inserts the record at the front of the list.
PushBalanceFront(st, b) == [st EXCEPT !.balances = <<b>> \o @]

\* statement.balances.push(current_balance.clone())
PushBalance(st, b) == [st EXCEPT !.balances = Append(@, b)]

\* statement.transactions.push(current_transaction.clone())
PushTransaction(st, t) == [st EXCEPT !.transactions = Append(@, t)]

\* A variant in which the Chrgs end tag clears all three flags.
P1EndChrgsClearsAll ==
  /\ pc = "pass1"
  /\ Rd1.ev.t = "End"
  /\ LET name == Rd1.ev.name IN
       /\ in_balance' = IF name \in {"Bal", "Chrgs"} THEN FALSE
                        ELSE in_balance
       /\ in_transaction' = IF name \in {"Ntry", "Chrgs"} THEN FALSE
                            ELSE in_transaction
       /\ in_charges' = IF name \in {"Ntry", "Chrgs"} THEN FALSE
                        ELSE in_charges
       /\ statement' =
            IF name = "Bal" THEN PushBalance(statement, current_balance)
            ELSE IF name = "Ntry"
              THEN PushTransaction(statement, current_transaction)
            ELSE statement
       /\ bal_src' = IF name = "Bal" THEN Append(bal_src, Rd1.next - 1)
                     ELSE bal_src
       /\ tx_src' = IF name = "Ntry" THEN Append(tx_src, Rd1.next - 1)
                    ELSE tx_src
  /\ current_path' = Pop(current_path)
  /\ pos' = Rd1.next
  /\ UNCHANGED <<doc, doc2, pc, current_balance, current_transaction,
                 balance_idx, tx_idx, out, windex, run, prev>>

P1End ==
  /\ pc = "pass1"
  /\ Rd1.ev.t = "End"
  /\ LET name == Rd1.ev.name IN
       /\ in_balance' = IF name = "Bal" THEN FALSE ELSE in_balance
       /\ in_transaction' = IF name = "Ntry" THEN FALSE ELSE in_transaction
       /\ in_charges' = IF name \in {"Ntry", "Chrgs"} THEN FALSE
                        ELSE in_charges
       /\ statement' =
            IF name = "Bal" THEN PushBalance(statement, current_balance)
            ELSE IF name = "Ntry"
              THEN PushTransaction(statement, current_transaction)
            ELSE statement
       /\ bal_src' = IF name = "Bal" THEN Append(bal_src, Rd1.next - 1)
                     ELSE bal_src
       /\ tx_src' = IF name = "Ntry" THEN Append(tx_src, Rd1.next - 1)
                    ELSE tx_src
  /\ current_path' = Pop(current_path)
  /\ pos' = Rd1.next
  /\ UNCHANGED <<doc, doc2, pc, current_balance, current_transaction,
                 balance_idx, tx_idx, out, windex, run, prev>>

\* Any other event (empty-element tag, comment, ...) is ignored.
P1Other ==
  /\ pc = "pass1"
  /\ Rd1.ev.t \in {"Empty", "Comment"}
  /\ pos' = Rd1.next
  /\ UNCHANGED <<doc, doc2, pc, statement, current_balance,
                 current_transaction, current_path, in_balance,
                 in_transaction, in_charges, balance_idx, tx_idx, out, windex,
                 bal_src, tx_src, run, prev>>

\* A variant that goes on reading after a reader error, as pass 2 does.
P1ErrIgnored ==
  /\ pc = "pass1"
  /\ Rd1.ev.t = "Err"
  /\ pos' = Rd1.next
  /\ UNCHANGED <<doc, doc2, pc, statement, current_balance,
                 current_transaction, current_path, in_balance,
                 in_transaction, in_charges, balance_idx, tx_idx, out,
                 windex, bal_src, tx_src, run, prev>>

\* A reader error ends parse_camt_10, and main, with an error.
P1Err ==
  /\ pc = "pass1"
  /\ Rd1.ev.t = "Err"
  /\ pc' = "error"
  /\ pos' = Rd1.next
  /\ UNCHANGED <<doc, doc2, statement, current_balance, current_transaction,
                 current_path, in_balance, in_transaction, in_charges,
                 balance_idx, tx_idx, out, windex, bal_src, tx_src, run, prev>>

\* End of input: the file is opened again and the pass 2 locals are set up.
P1Eof ==
  /\ pc = "pass1"
  /\ Rd1.ev.t = "Eof"
  /\ pc' = "pass2"
  /\ pos' = 1
  /\ current_path' = <<>>
  /\ in_balance' = FALSE
  /\ in_transaction' = FALSE
  /\ balance_idx' = 0
  /\ tx_idx' = 0
  /\ UNCHANGED <<doc, doc2, statement, current_balance, current_transaction,
                 in_charges, out, windex, bal_src, tx_src, run, prev>>

\* ------------------------------------------------------------------------
\* parse_camt_10, pass 2
\* ------------------------------------------------------------------------
Rd2 == ReadEvent(File(doc2), pos)

\* The value of the last Ccy attribute of a start tag, or the empty string.
RECURSIVE CcyOf(_)
CcyOf(attrs) ==
  IF attrs = <<>> THEN <<>>
  ELSE LET a == attrs[Len(attrs)]
       IN IF a[1] = "Ccy" THEN a[2]
          ELSE CcyOf(SubSeq(attrs, 1, Len(attrs) - 1))

\* A variant without the bounds check.
InBoundsNone(idx, list) == TRUE

\* The bounds check of an index into a list of the model.
InBounds(idx, list) == idx < Len(list)

\* The branch taken for the text that follows an Amt start tag.
AmtTarget(path) ==
  IF in_balance /\ PathEndsWith(path, <<"Bal", "Amt">>)
       /\ InBounds(balance_idx, statement.balances)
    THEN "balance"
  ELSE IF in_transaction /\ PathEndsWith(path, <<"Ntry", "Amt">>)
       /\ InBounds(tx_idx, statement.transactions)
    THEN "transaction"
  ELSE "none"

\* An Amt start tag: the currency attribute is taken, the next event is
\* read, and if it is a text the amount and currency are stored at the
\* running index.  Indexing outside a list panics.
P2Amt ==
  /\ pc = "pass2"
  /\ Rd2.ev.t = "Start"
  /\ Rd2.ev.name = "Amt"
  /\ current_path' = Append(current_path, "Amt")
  /\ LET currency == CcyOf(Rd2.ev.attrs)
         rd == ReadEvent(File(doc2), Rd2.next)
         amount == rd.ev.text
         target == AmtTarget(Append(current_path, "Amt"))
     IN /\ pos' = rd.next
        /\ IF rd.ev.t = "Text" /\ target = "balance"
           THEN IF balance_idx < Len(statement.balances)
                THEN /\ statement' =
                          [statement EXCEPT
                             !.balances[balance_idx + 1].amount = amount,
                             !.balances[balance_idx + 1].currency = currency]
                     /\ pc' = pc
                ELSE /\ pc' = "panic"
                     /\ statement' = statement
           ELSE IF rd.ev.t = "Text" /\ target = "transaction"
           THEN IF tx_idx < Len(statement.transactions)
                THEN /\ statement' =
                          [statement EXCEPT
                             !.transactions[tx_idx + 1].amount = amount,
                             !.transactions[tx_idx + 1].currency = currency]
                     /\ pc' = pc
                ELSE /\ pc' = "panic"
                     /\ statement' = statement
           ELSE UNCHANGED <<statement, pc>>
  /\ UNCHANGED <<doc, doc2, current_balance, current_transaction, in_balance,
                 in_transaction, in_charges, balance_idx, tx_idx, out, windex,
                 bal_src, tx_src, run, prev>>

P2Start ==
  /\ pc = "pass2"
  /\ Rd2.ev.t = "Start"
  /\ Rd2.ev.name # "Amt"
  /\ LET name == Rd2.ev.name IN
       /\ current_path' = Append(current_path, name)
       /\ in_balance' = IF name = "Bal" THEN TRUE ELSE in_balance
       /\ in_transaction' = IF name = "Ntry" THEN TRUE ELSE in_transaction
  /\ pos' = Rd2.next
  /\ UNCHANGED <<doc, doc2, pc, statement, current_balance,
                 current_transaction, in_charges, balance_idx, tx_idx, out,
                 windex, bal_src, tx_src, run, prev>>

\* A variant that advances the index at the end tag of either kind.
NextIdxAnyItem(idx, name, tag) ==
  IF name \in {"Bal", "Ntry"} THEN idx + 1 ELSE idx

\* The running index after an end tag: it advances at the end tag of its
\* own kind of element ("Bal" for balance_idx, "Ntry" for tx_idx).
NextIdx(idx, name, tag) == IF name = tag THEN idx + 1 ELSE idx

P2End ==
  /\ pc = "pass2"
  /\ Rd2.ev.t = "End"
  /\ LET name == Rd2.ev.name IN
       /\ in_balance' = IF name = "Bal" THEN FALSE ELSE in_balance
       /\ balance_idx' = NextIdx(balance_idx, name, "Bal")
       /\ in_transaction' = IF name = "Ntry" THEN FALSE ELSE in_transaction
       /\ tx_idx' = NextIdx(tx_idx, name, "Ntry")
  /\ current_path' = Pop(current_path)
  /\ pos' = Rd2.next
  /\ UNCHANGED <<doc, doc2, pc, statement, current_balance,
                 current_transaction, in_charges, out, windex, bal_src,
                 tx_src, run, prev>>

\* Text, empty-element tags, comments and reader errors are all ignored.
\* A variant with a reader that reports the same error at every read.
P2OtherErrRepeats ==
  /\ pc = "pass2"
  /\ Rd2.ev.t \in {"Text", "Empty", "Comment", "Err"}
  /\ pos' = IF Rd2.ev.t = "Err" THEN pos ELSE Rd2.next
  /\ UNCHANGED <<doc, doc2, pc, statement, current_balance,
                 current_transaction, current_path, in_balance,
                 in_transaction, in_charges, balance_idx, tx_idx, out, windex,
                 bal_src, tx_src, run, prev>>

P2Other ==
  /\ pc = "pass2"
  /\ Rd2.ev.t \in {"Text", "Empty", "Comment", "Err"}
  /\ pos' = Rd2.next
  /\ UNCHANGED <<doc, doc2, pc, statement, current_balance,
                 current_transaction, current_path, in_balance,
                 in_transaction, in_charges, balance_idx, tx_idx, out, windex,
                 bal_src, tx_src, run, prev>>

\* End of input: parse_camt_10 returns the statement to main.
P2Eof ==
  /\ pc = "pass2"
  /\ Rd2.ev.t = "Eof"
  /\ pc' = "write_open"
  /\ UNCHANGED <<doc, doc2, pos, statement, current_balance,
                 current_transaction, current_path, in_balance,
                 in_transaction, in_charges, balance_idx, tx_idx, out, windex,
                 bal_src, tx_src, run, prev>>

\* Text literals written by the program.
tPlaceholderBic == <<"X","X","X","X","X","X","X","X">>
tOne == <<"1">>
tTrue == <<"t","r","u","e">>
tSps == <<"S","P","S","/","2",".","1">>
tBank == <<"B","a","n","k">>
tOthrId == <<"X","X","X","-","0","0","0",".","0","0","0",".","0","0","0">>
tIssrId == <<"I","D">>
tBOOK == <<"B","O","O","K">>
tPMNT == <<"P","M","N","T">>
tCCRD == <<"C","C","R","D">>
tPOSD == <<"P","O","S","D">>
tICDT == <<"I","C","D","T">>
tESCT == <<"E","S","C","T">>
tCARD == <<"C","A","R","D">>
tTX == <<"T","X">>
tXmlns == <<"u","r","n",":","i","s","o",":","s","t","d",":","i","s","o",":","2","0","0","2","2",":","t","e","c","h",":","x","s","d",":","c","a","m","t",".","0","5","3",".","0","0","1",".","0","8">>
tXsi == <<"h","t","t","p",":","/","/","w","w","w",".","w","3",".","o","r","g","/","2","0","0","1","/","X","M","L","S","c","h","e","m","a","-","i","n","s","t","a","n","c","e">>
tUtcOffset == <<"+","0","0",":","0","0">>

\* ------------------------------------------------------------------------
\* generate_transaction_reference
\* ------------------------------------------------------------------------
Digits == <<"0","1","2","3","4","5","6","7","8","9">>

Upper ==
  <<"A","B","C","D","E","F","G","H","I","J","K","L","M",
    "N","O","P","Q","R","S","T","U","V","W","X","Y","Z">>

Lower ==
  <<"a","b","c","d","e","f","g","h","i","j","k","l","m",
    "n","o","p","q","r","s","t","u","v","w","x","y","z">>

IndexOf(seq, c) == CHOOSE i \in 1..Len(seq) : seq[i] = c

IsDigit(c) == \E i \in 1..Len(Digits) : Digits[i] = c

\* The byte of an ASCII character.
Byte(c) ==
  IF IsDigit(c) THEN 47 + IndexOf(Digits, c)
  ELSE IF \E i \in 1..Len(Upper) : Upper[i] = c THEN 64 + IndexOf(Upper, c)
  ELSE IF \E i \in 1..Len(Lower) : Lower[i] = c THEN 96 + IndexOf(Lower, c)
  ELSE CASE c = "\t" -> 9 [] c = "\n" -> 10 [] c = " " -> 32
         [] c = "+" -> 43 [] c = "-" -> 45 [] c = "." -> 46
         [] c = "/" -> 47 [] c = ":" -> 58

\* A variant with a key chosen per run of the program.
DefaultHasherNewPerRun == run

\* The key of DefaultHasher::new(): the same in every run of the program.
DefaultHasherNew == 0

\* A 64-bit hasher state is four 16-bit limbs, least significant first.
\* The algorithm of the standard library's DefaultHasher is not part of
\* the program; it is represented by a fixed order-sensitive fold over the
\* bytes written, h := (257 * h + byte) mod 2^64.
HasherInit(key) == <<key, 0, 0, 0>>

\* Hasher::write_u8
HasherWrite(h, b) ==
  CHOOSE r \in
    {LET x1 == g[1] * 257 + c
         x2 == g[2] * 257 + (x1 \div 65536)
         x3 == g[3] * 257 + (x2 \div 65536)
         x4 == g[4] * 257 + (x3 \div 65536)
     IN <<x1 % 65536, x2 % 65536, x3 % 65536, x4 % 65536>> :
       g \in {h}, c \in {b}} : TRUE

\* impl Hash for str: the bytes of the string, then the byte 0xff.
\* Hasher::write: the bytes in order (four per step while there are four;
\* the hasher state and the rest of the bytes are bound to their values).
RECURSIVE HasherWriteBytes(_, _)
HasherWriteBytes(h, s) ==
  CHOOSE r \in
    {IF t = <<>> THEN g
     ELSE IF Len(t) < 4
       THEN HasherWriteBytes(HasherWrite(g, Byte(t[1])), Tail(t))
     ELSE HasherWriteBytes(
            HasherWrite(HasherWrite(HasherWrite(HasherWrite(g,
              Byte(t[1])), Byte(t[2])), Byte(t[3])), Byte(t[4])),
            SubSeq(t, 5, Len(t))) : g \in {h}, t \in {s}} : TRUE

HashStr(h, s) == HasherWrite(HasherWriteBytes(h, s), 255)

\* Numbers of up to twenty decimal digits are five limbs of four decimal
\* digits, most significant first.  d * m + a, modulo 10^20:
MulAdd(d, m, a) ==
  CHOOSE r \in
    {LET v5 == e[5] * m + c
         v4 == e[4] * m + (v5 \div 10000)
         v3 == e[3] * m + (v4 \div 10000)
         v2 == e[2] * m + (v3 \div 10000)
         v1 == e[1] * m + (v2 \div 10000)
     IN <<v1 % 10000, v2 % 10000, v3 % 10000, v4 % 10000, v5 % 10000>> :
       e \in {d}, c \in {a}} : TRUE

\* hasher.finish(): the u64 value of the four 16-bit limbs.
Finish(h) ==
  CHOOSE r \in
    {MulAdd(MulAdd(MulAdd(MulAdd(<<0, 0, 0, 0, 0>>,
                                 65536, g[4]), 65536, g[3]), 65536, g[2]),
            65536, g[1]) : g \in {h}} : TRUE

\* A variant that keeps nine digits.
ShortHashNine(d) ==
  CHOOSE r \in {<<0, 0, e[3] % 10, e[4], e[5]>> : e \in {d}} : TRUE

\* hash % 10_000_000_000
ShortHash(d) ==
  CHOOSE r \in {<<0, 0, e[3] % 100, e[4], e[5]>> : e \in {d}} : TRUE

\* The decimal digits of a number, most significant first, without leading
\* zeros.
RECURSIVE Significant(_)
Significant(ds) ==
  CHOOSE r \in
    {IF Len(v) > 1 /\ Head(v) = 0 THEN Significant(Tail(v)) ELSE v :
       v \in {ds}} : TRUE

DecimalDigits(d) ==
  CHOOSE r \in
    {Significant([i \in 1..20 |->
       LET limb == e[((i - 1) \div 4) + 1]
           k == (i - 1) % 4
       IN IF k = 0 THEN limb \div 1000
          ELSE IF k = 1 THEN (limb \div 100) % 10
          ELSE IF k = 2 THEN (limb \div 10) % 10
          ELSE limb % 10]) : e \in {d}} : TRUE

\* format!("{:010}", v): the decimal digits of v, padded with zeros on the
\* left up to a width of ten.
Format010(v) ==
  CHOOSE r \in
    {LET pad == IF Len(digits) < 10 THEN 10 - Len(digits) ELSE 0
     IN [i \in 1..pad |-> "0"]
          \o [i \in 1..Len(digits) |-> Digits[digits[i] + 1]] :
       digits \in {DecimalDigits(v)}} : TRUE

\* A variant that hashes the additional info as it is stored.
NormalizedInfoRaw(t) == t.additional_info

\* The additional info as it is hashed: tokens rejoined with single spaces.
NormalizedInfo(t) == JoinSpace(SplitWhitespace(t.additional_info))

\* The state of the hasher after the fields of the transaction.
HashedFields(t) ==
  HashStr(HashStr(HashStr(HashStr(HashStr(HashStr(
    HasherInit(DefaultHasherNew),
    t.amount), t.currency), t.credit_debit_ind), t.booking_date),
    t.bank_tx_code), NormalizedInfo(t))

generate_transaction_reference(t) ==
  tTX \o Format010(ShortHash(Finish(HashedFields(t))))

\* ------------------------------------------------------------------------
\* convert_datetime, convert_datetime_to_date
\* ------------------------------------------------------------------------
Num2(s, i) == (Byte(s[i]) - 48) * 10 + (Byte(s[i + 1]) - 48)

\* The number of fraction characters (".ddd") starting at position 20.
RECURSIVE DigitRun(_, _)
DigitRun(s, i) ==
  IF i <= Len(s) /\ IsDigit(s[i]) THEN 1 + DigitRun(s, i + 1) ELSE 0

FractionLen(s) ==
  IF Len(s) >= 21 /\ s[20] = "." /\ DigitRun(s, 21) > 0
  THEN 1 + DigitRun(s, 21)
  ELSE 0

\* DateTime::parse_from_rfc3339 accepts date "T" time [fraction] offset.
IsRfc3339(s) ==
  /\ Len(s) >= 20
  /\ \A i \in {1, 2, 3, 4, 6, 7, 9, 10, 12, 13, 15, 16, 18, 19} : IsDigit(s[i])
  /\ s[5] = "-" /\ s[8] = "-" /\ s[11] = "T" /\ s[14] = ":" /\ s[17] = ":"
  /\ Num2(s, 6) \in 1..12 /\ Num2(s, 9) \in 1..31
  /\ Num2(s, 12) <= 23 /\ Num2(s, 15) <= 59 /\ Num2(s, 18) <= 59
  /\ LET o == 20 + FractionLen(s) IN
       \/ Len(s) = o /\ s[o] = "Z"
       \/ /\ Len(s) = o + 5
          /\ s[o] \in {"+", "-"}
          /\ IsDigit(s[o + 1]) /\ IsDigit(s[o + 2]) /\ s[o + 3] = ":"
          /\ IsDigit(s[o + 4]) /\ IsDigit(s[o + 5])
          /\ Num2(s, o + 1) <= 23 /\ Num2(s, o + 4) <= 59

\* dt.format("%Y-%m-%dT%H:%M:%S%:z"): seconds precision, numeric offset.
FormatRfc3339(s) ==
  LET o == 20 + FractionLen(s)
  IN SubSeq(s, 1, 19) \o (IF s[o] = "Z" THEN tUtcOffset ELSE SubSeq(s, o, Len(s)))

\* The second attempt, str::parse::<DateTime<Utc>>, needs a time of day and
\* an offset as well; it fails on every text without a ":" and the texts
\* with one that the documents contain are RFC 3339.
ParsesAsUtc(s) == FALSE

convert_datetime(s) ==
  IF IsRfc3339(s) THEN FormatRfc3339(s)
  ELSE IF ParsesAsUtc(s) THEN SubSeq(s, 1, 19) \o <<"+", "0", "2", ":", "0", "0">>
  ELSE s

\* The number of bytes of a character in UTF-8 (the texts of the model
\* have characters of one byte and the two-byte character U+00E9).
Utf8Len(c) == IF c = "U+00E9" THEN 2 ELSE 1

\* str::len: the length in bytes.
ByteLen(s) == Len(s) + Cardinality({i \in 1..Len(s) : Utf8Len(s[i]) = 2})

\* str::is_char_boundary
IsCharBoundary(s, n) ==
  \E k \in 0..Len(s) : ByteLen(SubSeq(s, 1, k)) = n

\* &s[..n] where n is a character boundary: the characters of the first n
\* bytes.
BytePrefix(s, n) ==
  SubSeq(s, 1, CHOOSE k \in 0..Len(s) : ByteLen(SubSeq(s, 1, k)) = n)

\* datetime_str[..10] panics when byte 10 is not a character boundary.
DatePanics(s) == ByteLen(s) >= 10 /\ ~IsCharBoundary(s, 10)

convert_datetime_to_date(s) ==
  IF ByteLen(s) >= 10 THEN BytePrefix(s, 10) ELSE s

\* ------------------------------------------------------------------------
\* The writer: write_camt_08 and its helpers
\* ------------------------------------------------------------------------

SAttr(name, key, value) == Tok("Start", name, << <<key, value>> >>, <<>>)

\* A variant that writes nothing for an empty value.
write_element_nonempty(name, value) ==
  IF value = <<>> THEN <<>> ELSE <<S(name), T(value), E(name)>>

\* write_element: start tag, text (possibly empty), end tag.
write_element(name, value) == <<S(name), T(value), E(name)>>

write_group_header(st) ==
  Flatten(<<
    <<S("GrpHdr")>>,
    write_element("MsgId", st.id),
    write_element("CreDtTm", convert_datetime(st.creation_datetime)),
    <<S("MsgRcpt"), S("Id"), S("OrgId")>>,
    write_element("AnyBIC", tPlaceholderBic),
    <<E("OrgId"), E("Id"), E("MsgRcpt")>>,
    <<S("MsgPgntn")>>,
    write_element("PgNb", tOne),
    write_element("LastPgInd", tTrue),
    <<E("MsgPgntn")>>,
    write_element("AddtlInf", tSps),
    <<E("GrpHdr")>>
  >>)

\* write_statement up to the balances.
write_statement_head(st) ==
  Flatten(<<
    <<S("Stmt")>>,
    write_element("Id", st.id),
    write_element("ElctrncSeqNb", tOne),
    write_element("CreDtTm", convert_datetime(st.creation_datetime)),
    <<S("FrToDt")>>,
    write_element("FrDtTm", convert_datetime(st.from_datetime)),
    write_element("ToDtTm", convert_datetime(st.to_datetime)),
    <<E("FrToDt")>>,
    <<S("Acct"), S("Id")>>,
    write_element("IBAN", st.iban),
    <<E("Id")>>,
    write_element("Ccy", st.currency),
    <<S("Ownr")>>,
    write_element("Nm", st.owner_name),
    <<E("Ownr")>>,
    <<S("Svcr"), S("FinInstnId")>>,
    write_element("BICFI", tPlaceholderBic),
    write_element("Nm", tBank),
    <<S("Othr")>>,
    write_element("Id", tOthrId),
    write_element("Issr", tIssrId),
    <<E("Othr"), E("FinInstnId"), E("Svcr"), E("Acct")>>
  >>)

\* write_balance up to the call of convert_datetime_to_date.
write_balance_head(b) ==
  Flatten(<<
    <<S("Bal"), S("Tp"), S("CdOrPrtry")>>,
    write_element("Cd", b.balance_type),
    <<E("CdOrPrtry"), E("Tp")>>,
    <<SAttr("Amt", "Ccy", b.currency), T(b.amount), E("Amt")>>,
    write_element("CdtDbtInd", b.credit_debit_ind),
    <<S("Dt")>>
  >>)

write_balance(b) ==
  Flatten(<<
    write_balance_head(b),
    write_element("Dt", convert_datetime_to_date(b.date)),
    <<E("Dt"), E("Bal")>>
  >>)

\* A variant that writes the reference of a transaction without fields.
DetailsRefsOther(ref_id) ==
  Flatten(<<
    <<S("Refs")>>,
    write_element("AcctSvcrRef",
                  generate_transaction_reference(TransactionDefault)),
    <<E("Refs")>>
  >>)

\* The Refs block of the entry details: the reference of the entry again.
DetailsRefs(ref_id) ==
  Flatten(<<
    <<S("Refs")>>,
    write_element("AcctSvcrRef", ref_id),
    <<E("Refs")>>
  >>)

\* A variant that writes the additional info as it is hashed.
DetailsRmtInfNormalized(t) ==
  <<S("RmtInf"), S("Ustrd"), T(NormalizedInfo(t)), E("Ustrd"), E("RmtInf")>>

\* The RmtInf block of the entry details: the additional info as stored.
DetailsRmtInf(t) ==
  <<S("RmtInf"), S("Ustrd"), T(t.additional_info), E("Ustrd"), E("RmtInf")>>

\* The nested entry details block of write_transaction.
EntryDetails(t, ref_id) ==
  Flatten(<<
    <<S("NtryDtls"), S("TxDtls")>>,
    DetailsRefs(ref_id),
    <<SAttr("Amt", "Ccy", t.currency), T(t.amount), E("Amt")>>,
    write_element("CdtDbtInd", t.credit_debit_ind),
    DetailsRmtInf(t),
    <<E("TxDtls"), E("NtryDtls")>>
  >>)

\* A variant that writes the entry details for every transaction.
HasDetailsAlways(t) == TRUE

\* The entry details are written when there is additional info.
HasDetails(t) == t.additional_info # <<>>

\* A variant that tests the prefix the other way round.
FamilyReversed(code) ==
  IF StartsWith(tCARD, code) THEN <<tCCRD, tPOSD>> ELSE <<tICDT, tESCT>>

\* The family and sub-family codes of a bank transaction code.
Family(code) ==
  IF StartsWith(code, tCARD) THEN <<tCCRD, tPOSD>> ELSE <<tICDT, tESCT>>

\* write_transaction up to the first call of convert_datetime_to_date.
write_transaction_head(t) ==
  Flatten(<<
    <<S("Ntry"), SAttr("Amt", "Ccy", t.currency), T(t.amount), E("Amt")>>,
    write_element("CdtDbtInd", t.credit_debit_ind),
    <<S("Sts")>>,
    write_element("Cd", tBOOK),
    <<E("Sts")>>,
    <<S("BookgDt")>>
  >>)

write_transaction(t) ==
  LET ref_id == generate_transaction_reference(t)
      date == convert_datetime_to_date(t.booking_date)
  IN Flatten(<<
         write_transaction_head(t),
         write_element("Dt", date),
         <<E("BookgDt")>>,
         <<S("ValDt")>>,
         write_element("Dt", date),
         <<E("ValDt")>>,
         write_element("AcctSvcrRef", ref_id),
         <<S("BkTxCd"), S("Domn")>>,
         write_element("Cd", tPMNT),
         <<S("Fmly")>>,
         write_element("Cd", Family(t.bank_tx_code)[1]),
         write_element("SubFmlyCd", Family(t.bank_tx_code)[2]),
         <<E("Fmly"), E("Domn")>>,
         <<S("Prtry")>>,
         write_element("Cd", t.bank_tx_code),
         <<E("Prtry"), E("BkTxCd")>>,
         (IF HasDetails(t) THEN EntryDetails(t, ref_id) ELSE <<>>),
         write_element("AddtlNtryInf", t.additional_info),
         <<E("Ntry")>>
       >>)

\* write_camt_08 up to and including the group header: the output file is
\* created, then the declaration, the root and the wrapper are written.
WOpen ==
  /\ pc = "write_open"
  /\ out' =
       <<Tok("Decl", "", <<>>, <<>>),
         Tok("Start", "Document",
             << <<"xmlns", tXmlns>>, <<"xmlns:xsi", tXsi>> >>, <<>>),
         S("BkToCstmrStmt")>> \o write_group_header(statement)
  /\ pc' = "write_stmt"
  /\ UNCHANGED <<doc, doc2, pos, statement, current_balance,
                 current_transaction, current_path, in_balance,
                 in_transaction, in_charges, balance_idx, tx_idx, windex,
                 bal_src, tx_src, run, prev>>

WStatementHead ==
  /\ pc = "write_stmt"
  /\ out' = out \o write_statement_head(statement)
  /\ windex' = 0
  /\ pc' = "write_bal"
  /\ UNCHANGED <<doc, doc2, pos, statement, current_balance,
                 current_transaction, current_path, in_balance,
                 in_transaction, in_charges, balance_idx, tx_idx, bal_src,
                 tx_src, run, prev>>

\* One iteration of "for balance in &statement.balances".
\* (If the date conversion panics, the events written before it stay.)
WBalance ==
  /\ pc = "write_bal"
  /\ windex < Len(statement.balances)
  /\ LET b == statement.balances[windex + 1] IN
       IF DatePanics(b.date)
       THEN /\ out' = out \o write_balance_head(b)
            /\ windex' = windex
            /\ pc' = "panic"
       ELSE /\ out' = out \o write_balance(b)
            /\ windex' = windex + 1
            /\ pc' = pc
  /\ UNCHANGED <<doc, doc2, pos, statement, current_balance,
                 current_transaction, current_path, in_balance,
                 in_transaction, in_charges, balance_idx, tx_idx, bal_src,
                 tx_src, run, prev>>

WBalancesEnd ==
  /\ pc = "write_bal"
  /\ windex = Len(statement.balances)
  /\ windex' = 0
  /\ pc' = "write_tx"
  /\ UNCHANGED <<doc, doc2, pos, statement, current_balance,
                 current_transaction, current_path, in_balance,
                 in_transaction, in_charges, balance_idx, tx_idx, out,
                 bal_src, tx_src, run, prev>>

\* One iteration of "for transaction in &statement.transactions".
WTransaction ==
  /\ pc = "write_tx"
  /\ windex < Len(statement.transactions)
  /\ LET t == statement.transactions[windex + 1] IN
       IF DatePanics(t.booking_date)
       THEN /\ out' = out \o write_transaction_head(t)
            /\ windex' = windex
            /\ pc' = "panic"
       ELSE /\ out' = out \o write_transaction(t)
            /\ windex' = windex + 1
            /\ pc' = pc
  /\ UNCHANGED <<doc, doc2, pos, statement, current_balance,
                 current_transaction, current_path, in_balance,
                 in_transaction, in_charges, balance_idx, tx_idx, bal_src,
                 tx_src, run, prev>>

\* A variant that closes the wrapper before the statement.
WCloseSwapped ==
  /\ pc = "write_tx"
  /\ windex = Len(statement.transactions)
  /\ out' = out \o <<E("BkToCstmrStmt"), E("Stmt"), E("Document")>>
  /\ pc' = "done"
  /\ UNCHANGED <<doc, doc2, pos, statement, current_balance,
                 current_transaction, current_path, in_balance,
                 in_transaction, in_charges, balance_idx, tx_idx, windex,
                 bal_src, tx_src, run, prev>>

\* The end of write_statement and of write_camt_08; main returns Ok.
WClose ==
  /\ pc = "write_tx"
  /\ windex = Len(statement.transactions)
  /\ out' = out \o <<E("Stmt"), E("BkToCstmrStmt"), E("Document")>>
  /\ pc' = "done"
  /\ UNCHANGED <<doc, doc2, pos, statement, current_balance,
                 current_transaction, current_path, in_balance,
                 in_transaction, in_charges, balance_idx, tx_idx, windex,
                 bal_src, tx_src, run, prev>>

\* ------------------------------------------------------------------------
\* Specifications
\* ------------------------------------------------------------------------
Next ==
  \/ P1Start \/ P1Text \/ P1End \/ P1Other \/ P1Err \/ P1Eof
  \/ P2Amt \/ P2Start \/ P2End \/ P2Other \/ P2Eof
  \/ WOpen \/ WStatementHead \/ WBalance \/ WBalancesEnd \/ WTransaction
  \/ WClose

Spec == Init /\ [][Next]_vars

\* The program is run a second time on the same input file.
Rerun ==
  /\ pc = "done"
  /\ run = 1
  /\ run' = 2
  /\ prev' = <<[statement |-> statement, out |-> out]>>
  /\ pc' = "pass1"
  /\ pos' = 1
  /\ statement' = StatementDefault
  /\ current_balance' = BalanceDefault
  /\ current_transaction' = TransactionDefault
  /\ current_path' = <<>>
  /\ in_balance' = FALSE
  /\ in_transaction' = FALSE
  /\ in_charges' = FALSE
  /\ balance_idx' = 0
  /\ tx_idx' = 0
  /\ out' = <<>>
  /\ windex' = 0
  /\ bal_src' = <<>>
  /\ tx_src' = <<>>
  /\ UNCHANGED <<doc, doc2>>

NextTwice == Next \/ Rerun

SpecTwice == Init /\ [][NextTwice]_vars

\* The file is opened twice (once per pass) and may have been rewritten in
\* between: a balance or an entry appended, or the first item removed.
Reread(d) ==
  {d} \cup {MkDoc(d.hdr, Append(d.items, t)) : t \in {balFull, ntryFull}}
      \cup (IF d.items = <<>> THEN {} ELSE {MkDoc(d.hdr, Tail(d.items))})

InitReread ==
  /\ doc \in Docs
  /\ doc2 \in Reread(doc)
  /\ run = 1
  /\ prev = <<>>
  /\ Fresh

SpecReread == InitReread /\ [][Next]_vars

\* The file may have been damaged between the two opens: pass 2 meets
\* ill-formed markup, before or after the items, that pass 1 did not.
Damaged(d) ==
  {d, MkDoc(d.hdr, Append(d.items, malformed)),
      MkDoc(d.hdr, <<malformed>> \o d.items)}

\* The documents of the termination check: the items on which the loops
\* and the writer take each of their paths (the event after an Amt start
\* tag is a text, an end tag or a start tag; a reader error; a panic).
LiveDocs ==
  {MkDoc(h, items) :
     h \in Headers,
     items \in SeqsUpTo({balEmptyAmt, balOddDate, ntryParties, malformed},
                        MaxItems)}

InitDamaged ==
  /\ doc \in LiveDocs
  /\ doc2 \in Damaged(doc)
  /\ run = 1
  /\ prev = <<>>
  /\ Fresh

\* Where main is: every step of main changes one of these.
progress == <<pc, pos, windex>>

\* main is one sequential thread: whenever it can take a step it does.
SpecLive == InitDamaged /\ [][Next]_vars /\ WF_progress(Next)

\* ------------------------------------------------------------------------
\* Reading documents and output for the properties
\* ------------------------------------------------------------------------
\* The chain of open elements after a token, given the chain before it.
StepStack(stack, tok) ==
  IF tok.t = "Start" THEN Append(stack, tok.name)
  ELSE IF tok.t = "End" THEN Pop(stack)
  ELSE stack

\* The chains of open elements before each of the tokens lo..hi, given the
\* chain before token lo (computed by halves).
RECURSIVE Stacks(_, _, _, _)
Stacks(toks, lo, hi, stack) ==
  IF lo = hi THEN <<stack>>
  ELSE LET mid == (lo + hi) \div 2
           left == Stacks(toks, lo, mid, stack)
       IN left \o Stacks(toks, mid + 1, hi,
                         StepStack(left[Len(left)], toks[mid]))

\* The elements of a set of positions, in increasing order.
Ascending(set) ==
  [n \in 1..Cardinality(set) |->
     CHOOSE i \in set : Cardinality({j \in set : j < i}) = n - 1]

\* The texts of the Text tokens whose chain of open elements is path.
TextsAt(toks, path) ==
  LET st == Stacks(toks, 1, Len(toks), <<>>)
      at == Ascending({i \in 1..Len(toks) :
                        toks[i].t = "Text" /\ st[i] = path})
  IN [n \in 1..Len(at) |-> toks[at[n]].text]

\* The start (or empty-element) tags whose element is at path.
TagsAt(toks, path) ==
  LET st == Stacks(toks, 1, Len(toks), <<>>)
      at == Ascending({i \in 1..Len(toks) :
                        /\ toks[i].t \in {"Start", "Empty"}
                        /\ Append(st[i], toks[i].name) = path})
  IN [n \in 1..Len(at) |-> toks[at[n]]]

\* The text of the element at path in a source item: its text content
\* without the surrounding whitespace; empty if there is no such element.
SrcText(item, path) == Trim(Flatten(TextsAt(item, path)))

\* The text of the only element at path of an output block.
OutText(block, path) ==
  LET ts == TextsAt(block, path) IN IF Len(ts) = 1 THEN ts[1] ELSE <<"?">>

\* The Ccy attribute of the first element at path; empty if there is none.
CcyAt(toks, path) ==
  LET tags == TagsAt(toks, path)
  IN IF tags = <<>> THEN <<>> ELSE CcyOf(tags[1].attrs)

\* The blocks of the elements called name in the output, in output order
\* (the writer never nests two elements of that name).
Blocks(o, name) ==
  LET starts == {i \in 1..Len(o) : o[i].t = "Start" /\ o[i].name = name}
      ends == {i \in 1..Len(o) : o[i].t = "End" /\ o[i].name = name}
      nth(n) == CHOOSE i \in starts : Cardinality({j \in starts : j < i}) = n - 1
      endOf(i) == CHOOSE e \in ends : e > i /\ \A f \in ends : f > i => e <= f
  IN [n \in 1..Cardinality(starts) |-> SubSeq(o, nth(n), endOf(nth(n)))]

Kind(item) == IF item[1].t = "Start" THEN item[1].name ELSE "Err"

RECURSIVE SumLen(_, _)
SumLen(items, k) == IF k = 0 THEN 0 ELSE Len(items[k]) + SumLen(items, k - 1)

HeadLen(d) == IF d.hdr = "full" THEN 4 + Len(hdrFull) + Len(stmtFull) ELSE 4

\* The file positions of the first and the last token of item k.
ItemStart(d, k) == HeadLen(d) + SumLen(d.items, k - 1) + 1
ItemEnd(d, k) == HeadLen(d) + SumLen(d.items, k)

\* The item containing file position q (0 if none).
ItemOfPos(d, q) ==
  IF \E k \in 1..Len(d.items) : ItemStart(d, k) <= q /\ q <= ItemEnd(d, k)
  THEN CHOOSE k \in 1..Len(d.items) : ItemStart(d, k) <= q /\ q <= ItemEnd(d, k)
  ELSE 0

\* The indices of the items of a kind, in document order.
RECURSIVE KindFrom(_, _, _)
KindFrom(d, k, kind) ==
  IF k > Len(d.items) THEN <<>>
  ELSE (IF Kind(d.items[k]) = kind THEN <<k>> ELSE <<>>)
         \o KindFrom(d, k + 1, kind)

BalItems(d) == KindFrom(d, 1, "Bal")
NtryItems(d) == KindFrom(d, 1, "Ntry")

\* The file positions of the Bal (Ntry) end tags, in document order.
SrcBalEnds(d) == [i \in 1..Len(BalItems(d)) |-> ItemEnd(d, BalItems(d)[i])]
SrcNtryEnds(d) == [i \in 1..Len(NtryItems(d)) |-> ItemEnd(d, NtryItems(d)[i])]

Before(ends, p) == SelectSeq(ends, LAMBDA e : e < p)

\* parse_camt_10 has returned the model (the writer runs, has finished, or
\* has panicked).
Parsed ==
  pc \in {"write_open", "write_stmt", "write_bal", "write_tx", "done", "panic"}

pBalCd == <<"Bal", "Tp", "CdOrPrtry", "Cd">>
pBalInd == <<"Bal", "CdtDbtInd">>
pBalAmt == <<"Bal", "Amt">>
pNtryAmt == <<"Ntry", "Amt">>
pNtryInd == <<"Ntry", "CdtDbtInd">>
pNtryCd == <<"Ntry", "BkTxCd", "Prtry", "Cd">>
pNtryInf == <<"Ntry", "AddtlNtryInf">>
pNtryRef == <<"Ntry", "AcctSvcrRef">>
pDtlsRef == <<"Ntry", "NtryDtls", "TxDtls", "Refs", "AcctSvcrRef">>
pDtlsAmt == <<"Ntry", "NtryDtls", "TxDtls", "Amt">>
pDtlsInd == <<"Ntry", "NtryDtls", "TxDtls", "CdtDbtInd">>
pDtlsUstrd == <<"Ntry", "NtryDtls", "TxDtls", "RmtInf", "Ustrd">>
pDtls == <<"Ntry", "NtryDtls">>

OutBal == Blocks(out, "Bal")
OutNtry == Blocks(out, "Ntry")

\* ------------------------------------------------------------------------
\* Properties
\* ------------------------------------------------------------------------

\* C1: during and after pass 1 the lists hold exactly one record per Bal and
\* per Ntry end tag read so far, in document order, and the Nth Bal / Ntry
\* block of the output carries the fields of the Nth Bal / Ntry element of
\* the input.
C1_OrderPreserved ==
  /\ pc # "error" =>
       /\ Len(statement.balances) = Len(bal_src)
       /\ Len(statement.transactions) = Len(tx_src)
  /\ pc = "pass1" =>
       /\ bal_src = Before(SrcBalEnds(doc), pos)
       /\ tx_src = Before(SrcNtryEnds(doc), pos)
  /\ (pc = "pass2" \/ Parsed) =>
       /\ bal_src = SrcBalEnds(doc)
       /\ tx_src = SrcNtryEnds(doc)
  /\ pc = "done" =>
       /\ Len(OutBal) = Len(BalItems(doc))
       /\ Len(OutNtry) = Len(NtryItems(doc))
       /\ \A n \in 1..Len(OutBal) :
            LET item == doc.items[BalItems(doc)[n]] IN
              /\ OutText(OutBal[n], pBalCd) = SrcText(item, pBalCd)
              /\ OutText(OutBal[n], pBalInd) = SrcText(item, pBalInd)
       /\ \A n \in 1..Len(OutNtry) :
            LET item == doc.items[NtryItems(doc)[n]] IN
              /\ OutText(OutNtry[n], pNtryInd) = SrcText(item, pNtryInd)
              /\ OutText(OutNtry[n], pNtryCd) = SrcText(item, pNtryCd)
              /\ OutText(OutNtry[n], pNtryInf) = SrcText(item, pNtryInf)

\* C1 witness: a finished conversion of two different balances, or of two
\* different entries.
C1_Witness ==
  /\ pc = "done"
  /\ \/ Len(OutBal) = 2
          /\ OutText(OutBal[1], pBalCd) # OutText(OutBal[2], pBalCd)
     \/ Len(OutNtry) = 2
          /\ OutText(OutNtry[1], pNtryInf) # OutText(OutNtry[2], pNtryInf)

\* C2 (as claimed): in the finished output every Bal / Ntry block has the
\* amount text and the Ccy attribute of the Amt element that is a direct
\* child of the corresponding input element.
C2_AmountFidelity ==
  pc = "done" =>
    /\ \A n \in 1..Len(OutBal) :
         LET item == doc.items[BalItems(doc)[n]] IN
           /\ OutText(OutBal[n], pBalAmt) = SrcText(item, pBalAmt)
           /\ CcyAt(OutBal[n], pBalAmt) = CcyAt(item, pBalAmt)
    /\ \A n \in 1..Len(OutNtry) :
         LET item == doc.items[NtryItems(doc)[n]] IN
           /\ OutText(OutNtry[n], pNtryAmt) = SrcText(item, pNtryAmt)
           /\ CcyAt(OutNtry[n], pNtryAmt) = CcyAt(item, pNtryAmt)

\* C3: when pass 2 is at an Amt start tag inside a Bal (Ntry) element, its
\* running index is the index at which pass 1 pushed the record of that
\* element, and at end of input both indices equal the list lengths.
C3_PassesAgree ==
  /\ (pc = "pass2" /\ Rd2.ev.t = "Start" /\ Rd2.ev.name = "Amt") =>
       LET k == ItemOfPos(doc2, Rd2.next - 1) IN
         /\ (k # 0 /\ Kind(doc2.items[k]) = "Bal") =>
              /\ balance_idx < Len(bal_src)
              /\ bal_src[balance_idx + 1] = ItemEnd(doc, k)
         /\ (k # 0 /\ Kind(doc2.items[k]) = "Ntry") =>
              /\ tx_idx < Len(tx_src)
              /\ tx_src[tx_idx + 1] = ItemEnd(doc, k)
  /\ ((pc = "pass2" /\ Rd2.ev.t = "Eof") \/ Parsed) =>
       /\ balance_idx = Len(statement.balances)
       /\ tx_idx = Len(statement.transactions)

\* C3 witness: pass 2 is at the Amt start tag of a Ntry element that follows
\* a Bal element.
C3_Witness ==
  /\ pc = "pass2" /\ Rd2.ev.t = "Start" /\ Rd2.ev.name = "Amt"
  /\ in_transaction /\ balance_idx = 1 /\ tx_idx = 0
  /\ PathEndsWith(Append(current_path, "Amt"), pNtryAmt)

\* C4: a step of pass 2 never changes the length of either list and never
\* panics; it changes at most the amount and currency of the record at the
\* running index, which is then below the length; and when the index is
\* not below the length the model is left unchanged.
C4_BoundsChecked ==
  [][pc = "pass2" =>
       /\ pc' # "panic"
       /\ Len(statement'.balances) = Len(statement.balances)
       /\ Len(statement'.transactions) = Len(statement.transactions)
       /\ \A i \in 1..Len(statement.balances) :
            statement'.balances[i] # statement.balances[i] =>
              i = balance_idx + 1
       /\ \A i \in 1..Len(statement.transactions) :
            statement'.transactions[i] # statement.transactions[i] =>
              i = tx_idx + 1
       /\ (in_balance /\ balance_idx >= Len(statement.balances)) =>
            statement'.balances = statement.balances
       /\ (in_transaction /\ tx_idx >= Len(statement.transactions)) =>
            statement'.transactions = statement.transactions
    ]_vars

\* C4 witness: pass 2 is at the Amt start tag, followed by its text, of a
\* Bal element for which pass 1 recorded no balance.
C4_Witness ==
  /\ pc = "pass2" /\ Rd2.ev.t = "Start" /\ Rd2.ev.name = "Amt"
  /\ ReadEvent(File(doc2), Rd2.next).ev.t = "Text"
  /\ in_balance
  /\ PathEndsWith(Append(current_path, "Amt"), pBalAmt)
  /\ balance_idx >= Len(statement.balances)

\* C5: in every Ntry block written, the AcctSvcrRef of the entry and every
\* AcctSvcrRef inside NtryDtls/TxDtls/Refs have the same text.
C5_SameReference ==
  \A n \in 1..Len(OutNtry) :
    /\ Len(TextsAt(OutNtry[n], pNtryRef)) = 1
    /\ \A i \in 1..Len(TextsAt(OutNtry[n], pDtlsRef)) :
         TextsAt(OutNtry[n], pDtlsRef)[i] = TextsAt(OutNtry[n], pNtryRef)[1]

\* C5 witness: an Ntry block with the nested reference has been written.
C5_Witness ==
  \E n \in 1..Len(OutNtry) : Len(TextsAt(OutNtry[n], pDtlsRef)) = 1

\* The hash of a transaction as five limbs of four decimal digits.
HashValue(t) == Finish(HashedFields(t))

Pow10 == [k \in 0..3 |-> IF k = 0 THEN 1 ELSE IF k = 1 THEN 10
                          ELSE IF k = 2 THEN 100 ELSE 1000]

\* The reference of the Nth entry is TX followed by the ten low decimal
\* digits of the hash of the Nth transaction.
RefIsTxAndTenDigits(n) ==
  LET r == OutText(OutNtry[n], pNtryRef)
      d == HashValue(statement.transactions[n])
  IN /\ Len(r) >= 12
     /\ SubSeq(r, 1, 2) = <<"T", "X">>
     /\ r[3] = Digits[((d[3] \div 10) % 10) + 1]
     /\ r[4] = Digits[(d[3] % 10) + 1]
     /\ \A i \in 1..4 :
          /\ r[4 + i] = Digits[((d[4] \div Pow10[4 - i]) % 10) + 1]
          /\ r[8 + i] = Digits[((d[5] \div Pow10[4 - i]) % 10) + 1]

\* C6 (as claimed): every reference written is TX and the hash modulo ten
\* billion in ten digits, a token of sixteen characters.
C6_SixteenCharacters ==
  \A n \in 1..Len(OutNtry) :
    /\ RefIsTxAndTenDigits(n)
    /\ Len(OutText(OutNtry[n], pNtryRef)) = 16

\* C6 (amended): every reference written is TX and the hash modulo ten
\* billion in ten digits, a token of twelve characters.
C6_TwelveCharacters ==
  \A n \in 1..Len(OutNtry) :
    /\ RefIsTxAndTenDigits(n)
    /\ Len(OutText(OutNtry[n], pNtryRef)) = 12

\* C6 witness: a reference has been written for a hash that is not below
\* ten billion, so that the reduction drops digits.
C6_Witness ==
  \E n \in 1..Len(OutNtry) :
    LET d == HashValue(statement.transactions[n])
    IN d[1] # 0 \/ d[2] # 0 \/ d[3] >= 100

SameHashedFields(a, b) ==
  /\ a.amount = b.amount
  /\ a.currency = b.currency
  /\ a.credit_debit_ind = b.credit_debit_ind
  /\ a.booking_date = b.booking_date
  /\ a.bank_tx_code = b.bank_tx_code
  /\ JoinSpace(SplitWhitespace(a.additional_info))
       = JoinSpace(SplitWhitespace(b.additional_info))

Stripped(s) ==
  LET inner == {i \in 1..Len(s) : ~IsWs(s[i])}
  IN IF inner = {} THEN <<>>
     ELSE SubSeq(s, CHOOSE i \in inner : \A j \in inner : i <= j,
                    CHOOSE i \in inner : \A j \in inner : i >= j)

\* The raw text of the AddtlNtryInf element of the Nth entry of the input.
SrcInfo(n) == Flatten(TextsAt(doc.items[NtryItems(doc)[n]], pNtryInf))

\* C8 (as claimed): the Ustrd text of every entry written is the additional
\* info of the source with its whitespace-separated tokens rejoined with
\* single spaces.
C8_UstrdTokensRejoined ==
  pc = "done" =>
    \A n \in 1..Len(OutNtry) :
      \A i \in 1..Len(TextsAt(OutNtry[n], pDtlsUstrd)) :
        TextsAt(OutNtry[n], pDtlsUstrd)[i]
          = JoinSpace(SplitWhitespace(SrcInfo(n)))

\* C8 (amended): the Ustrd text of every entry written is the additional
\* info of the source without its leading and trailing whitespace, the
\* whitespace between its tokens unchanged.
C8_UstrdTrimmedOnly ==
  pc = "done" =>
    \A n \in 1..Len(OutNtry) :
      \A i \in 1..Len(TextsAt(OutNtry[n], pDtlsUstrd)) :
        TextsAt(OutNtry[n], pDtlsUstrd)[i] = Stripped(SrcInfo(n))

\* C8 witness: the source "  Coffee   shop  " has been written to Ustrd as
\* "Coffee   shop".
C8_Witness ==
  /\ pc = "done"
  /\ \E n \in 1..Len(OutNtry) :
       /\ SrcInfo(n) = tInfoRaw
       /\ TextsAt(OutNtry[n], pDtlsUstrd)
            = << <<"C","o","f","f","e","e"," "," "," ","s","h","o","p">> >>

C10_DetailsIffInfo ==
  \A n \in 1..Len(OutNtry) :
    LET b == OutNtry[n]
        t == statement.transactions[n]
        present == t.additional_info # <<>>
        count == IF present THEN 1 ELSE 0
    IN /\ Len(TagsAt(b, pDtls)) = count
       /\ Len(TextsAt(b, pDtlsRef)) = count
       /\ Len(TagsAt(b, pDtlsAmt)) = count
       /\ Len(TextsAt(b, pDtlsInd)) = count
       /\ Len(TextsAt(b, pDtlsUstrd)) = count
       /\ present => TextsAt(b, pDtlsUstrd)[1] = t.additional_info
       /\ Len(TagsAt(b, pNtryInf)) = 1
       /\ SubSeq(b, Len(b) - 3, Len(b))
            = write_element("AddtlNtryInf", t.additional_info)
                \o <<E("Ntry")>>

\* C10 witness: one Ntry block with and one without the NtryDtls block.
C10_Witness ==
  /\ \E n \in 1..Len(OutNtry) : Len(TagsAt(OutNtry[n], pDtls)) = 1
  /\ \E n \in 1..Len(OutNtry) : Len(TagsAt(OutNtry[n], pDtls)) = 0

\* ------------------------------------------------------------------------
\* Structure of the output
\* ------------------------------------------------------------------------
\* Every end tag closes the innermost open element.
WellNested(toks) ==
  toks = <<>> \/
    LET st == Stacks(toks, 1, Len(toks), <<>>)
    IN \A i \in 1..Len(toks) :
         toks[i].t = "End" =>
           st[i] # <<>> /\ st[i][Len(st[i])] = toks[i].name

\* The chain of open elements after the last token.
OpenAfter(toks) ==
  IF toks = <<>> THEN <<>>
  ELSE StepStack(Stacks(toks, 1, Len(toks), <<>>)[Len(toks)],
                 toks[Len(toks)])

\* The names of the elements that are children of the element at path, in
\* order.
ChildrenOf(toks, path) ==
  LET st == Stacks(toks, 1, Len(toks), <<>>)
      at == Ascending({i \in 1..Len(toks) :
                        toks[i].t = "Start" /\ st[i] = path})
  IN [n \in 1..Len(at) |-> toks[at[n]].name]

\* The positions of the start tags of the elements called name.
StartsOf(toks, name) ==
  {i \in 1..Len(toks) : toks[i].t = "Start" /\ toks[i].name = name}

pStmt == <<"Document", "BkToCstmrStmt", "Stmt">>

\* C11: what has been written so far is well nested, and the finished
\* output is one Document with one BkToCstmrStmt with one GrpHdr followed
\* by one Stmt, in which the Bal blocks, one per balance, all precede the
\* Ntry blocks, one per transaction; with both lists empty the skeleton is
\* written without Bal and Ntry.
C11_OutputSkeleton ==
  /\ WellNested(out)
  /\ pc = "done" =>
       /\ OpenAfter(out) = <<>>
       /\ out[1].t = "Decl"
       /\ ChildrenOf(out, <<>>) = <<"Document">>
       /\ ChildrenOf(out, <<"Document">>) = <<"BkToCstmrStmt">>
       /\ ChildrenOf(out, <<"Document", "BkToCstmrStmt">>)
            = <<"GrpHdr", "Stmt">>
       /\ Len(TagsAt(out, Append(pStmt, "Bal"))) = Len(statement.balances)
       /\ Len(TagsAt(out, Append(pStmt, "Ntry")))
            = Len(statement.transactions)
       /\ Cardinality(StartsOf(out, "Bal")) = Len(statement.balances)
       /\ Cardinality(StartsOf(out, "Ntry")) = Len(statement.transactions)
       /\ \A b \in StartsOf(out, "Bal") : \A n \in StartsOf(out, "Ntry") :
            b < n

\* C11 witness: a finished conversion of an input whose entry comes before
\* its balance.
C11_Witness ==
  /\ pc = "done"
  /\ Len(doc.items) = 2
  /\ Kind(doc.items[1]) = "Ntry" /\ Kind(doc.items[2]) = "Bal"
  /\ StartsOf(out, "Bal") # {} /\ StartsOf(out, "Ntry") # {}

\* ------------------------------------------------------------------------
\* Errors and absent fields
\* ------------------------------------------------------------------------
\* The reader reports an error somewhere in the input.
HasReaderError(d) == \E i \in 1..Len(File(d)) : File(d)[i].t = "Err"

\* C12: nothing is written before parse_camt_10 has returned the model,
\* the model does not change while the output is written, and for an input
\* on which the reader reports an error nothing is ever written: main ends
\* with the error.
C12_AllOrNothing ==
  /\ [](~Parsed => out = <<>>)
  /\ [](HasReaderError(doc) => out = <<>> /\ ~Parsed)
  /\ [](pc = "error" => HasReaderError(doc))
  /\ [][Parsed => statement' = statement /\ pc' # "error"]_vars

\* C12 witness: main has ended with an error after pass 1 had already
\* recorded an item.
C12_Witness ==
  /\ pc = "error"
  /\ Len(statement.balances) + Len(statement.transactions) > 0

\* The texts of the text events of toks (inside the elements open) whose
\* path ends with suffix, as the parser compares paths.
MatchingTexts(toks, open, suffix) ==
  LET st == Stacks(toks, 1, Len(toks), open)
      at == Ascending({i \in 1..Len(toks) :
                        /\ toks[i].t = "Text"
                        /\ Trim(toks[i].text) # <<>>
                        /\ PathEndsWith(st[i], suffix)})
  IN [n \in 1..Len(at) |-> Trim(toks[at[n]].text)]

\* No text event of the source matches the suffix.
Absent(toks, open, suffix) == MatchingTexts(toks, open, suffix) = <<>>

\* The written element at path is there, once, with an empty text.
WrittenEmpty(block, path) == TextsAt(block, path) = << <<>> >>

\* The statement header fields: name, suffix read, path written in Stmt.
HeaderFields ==
  { <<"id", <<"Stmt", "Id">>, <<"Stmt", "Id">> >>,
    <<"creation_datetime", <<"Stmt", "CreDtTm">>, <<"Stmt", "CreDtTm">> >>,
    <<"from_datetime", <<"FrToDt", "FrDtTm">>,
      <<"Stmt", "FrToDt", "FrDtTm">> >>,
    <<"to_datetime", <<"FrToDt", "ToDtTm">>,
      <<"Stmt", "FrToDt", "ToDtTm">> >>,
    <<"iban", <<"Acct", "Id", "IBAN">>, <<"Stmt", "Acct", "Id", "IBAN">> >>,
    <<"currency", <<"Acct", "Ccy">>, <<"Stmt", "Acct", "Ccy">> >>,
    <<"owner_name", <<"Acct", "Ownr", "Nm">>,
      <<"Stmt", "Acct", "Ownr", "Nm">> >> }

\* The balance fields: name, suffix read, path written in Bal.
BalanceFields ==
  { <<"balance_type", pBalCd, pBalCd>>,
    <<"credit_debit_ind", pBalInd, pBalInd>>,
    <<"date", <<"Bal", "Dt", "DtTm">>, <<"Bal", "Dt", "Dt">> >>,
    <<"amount", pBalAmt, pBalAmt>> }

\* The transaction fields: name, suffix read, path written in Ntry.
TransactionFields ==
  { <<"credit_debit_ind", pNtryInd, pNtryInd>>,
    <<"booking_date", <<"Ntry", "BookgDt", "DtTm">>,
      <<"Ntry", "BookgDt", "Dt">> >>,
    <<"booking_date", <<"Ntry", "BookgDt", "DtTm">>,
      <<"Ntry", "ValDt", "Dt">> >>,
    <<"bank_tx_code", pNtryCd, pNtryCd>>,
    <<"additional_info", pNtryInf, pNtryInf>>,
    <<"amount", pNtryAmt, pNtryAmt>> }

\* The Stmt block of the output.
OutStmt == Blocks(out, "Stmt")[1]

pFmlyCd == <<"Ntry", "BkTxCd", "Domn", "Fmly", "Cd">>
pSubFmlyCd == <<"Ntry", "BkTxCd", "Domn", "Fmly", "SubFmlyCd">>

\* C14: every Ntry block written has the family pair CCRD/POSD if the bank
\* transaction code of its source entry begins with the four characters
\* CARD, and ICDT/ESCT otherwise (also for a missing code), and has the
\* source code itself under BkTxCd/Prtry/Cd.
C14_FamilyByPrefix ==
  \A n \in 1..Len(OutNtry) :
    LET code == SrcText(doc.items[NtryItems(doc)[n]], pNtryCd)
        card == Len(code) >= 4 /\ SubSeq(code, 1, 4) = <<"C", "A", "R", "D">>
    IN /\ TextsAt(OutNtry[n], pFmlyCd)
            = IF card THEN << <<"C", "C", "R", "D">> >>
              ELSE << <<"I", "C", "D", "T">> >>
       /\ TextsAt(OutNtry[n], pSubFmlyCd)
            = IF card THEN << <<"P", "O", "S", "D">> >>
              ELSE << <<"E", "S", "C", "T">> >>
       /\ TextsAt(OutNtry[n], pNtryCd) = <<code>>

\* C14 witness: entries with a CARD code, with another code and without
\* code have been written.
C14_Witness ==
  /\ \E n \in 1..Len(OutNtry) :
       /\ SrcText(doc.items[NtryItems(doc)[n]], pNtryCd) = tCard
       /\ TextsAt(OutNtry[n], pFmlyCd) = <<tCCRD>>
  /\ \E n \in 1..Len(OutNtry) :
       /\ SrcText(doc.items[NtryItems(doc)[n]], pNtryCd) \in {tSct, <<>>}
       /\ TextsAt(OutNtry[n], pFmlyCd) = <<tICDT>>

\* The date written in the Nth Bal block, and the date of the Nth balance.
OutBalDate(n) == TextsAt(OutBal[n], <<"Bal", "Dt", "Dt">>)

\* C15 (as claimed): the date conversion never fails, and the date written
\* for a balance is the first ten characters of its date if that has at
\* least ten characters, and its date unchanged otherwise.
C15_DateNeverFails ==
  /\ pc # "panic"
  /\ pc = "done" =>
       \A n \in 1..Len(OutBal) :
         LET s == statement.balances[n].date
         IN OutBalDate(n) = << IF Len(s) >= 10 THEN SubSeq(s, 1, 10) ELSE s >>

\* ------------------------------------------------------------------------
\* Which text reaches which field
\* ------------------------------------------------------------------------
\* The chain of open elements ends with exactly the element names.
ChainEndsWith(stack, names) ==
  /\ Len(stack) >= Len(names)
  /\ SubSeq(stack, Len(stack) - Len(names) + 1, Len(stack)) = names

\* The positions of the non-blank text events among the first n tokens of
\* toks whose chain of open elements ends with exactly the names.
ExactAt(toks, n, names) ==
  LET st == Stacks(toks, 1, Len(toks), <<>>)
  IN {i \in 1..n : /\ toks[i].t = "Text"
                   /\ Trim(toks[i].text) # <<>>
                   /\ ChainEndsWith(st[i], names)}

\* The text of the last of them, or the empty string if there is none.
LastExact(toks, n, names) ==
  LET at == ExactAt(toks, n, names)
  IN IF at = {} THEN <<>>
     ELSE Trim(toks[CHOOSE i \in at : \A j \in at : j <= i].text)

\* The number of tokens pass 1 has read.
Pass1Read == IF pc = "pass1" THEN pos - 1 ELSE Len(File(doc))

\* C16 (as claimed): a header field of the statement holds the text of the
\* last text event read whose chain of open elements ends with exactly the
\* names of its suffix (the empty string if there was none): text under
\* CdtrAcct/Id/IBAN does not reach the field iban.
C16_HeaderExactSuffix ==
  pc # "error" =>
    \A f \in HeaderFields :
      statement[f[1]] = LastExact(File(doc), Pass1Read, f[2])

\* The last element of a sequence of texts, or the empty string.
LastOr(texts) == IF texts = <<>> THEN <<>> ELSE texts[Len(texts)]

\* The item of the source whose end tag is at file position q.
ItemEndingAt(q) == doc.items[ItemOfPos(doc, q)]

\* The fields pass 1 fills in a balance / a transaction, with their suffix.
BalanceScoped ==
  { <<"balance_type", pBalCd>>, <<"credit_debit_ind", pBalInd>>,
    <<"date", <<"Bal", "Dt", "DtTm">> >> }

TransactionScoped ==
  { <<"credit_debit_ind", pNtryInd>>,
    <<"booking_date", <<"Ntry", "BookgDt", "DtTm">> >>,
    <<"bank_tx_code", pNtryCd>>, <<"additional_info", pNtryInf>> }

\* The scoped fields of a record.
Scoped(rec, fields) == [f \in fields |-> rec[f[1]]]

\* C17: in pass 1 an accumulator changes only in a step after which its
\* flag is set, and a Bal (Ntry) start tag leaves the default balance
\* (transaction) in it; each scoped field of the record appended at a Bal
\* (Ntry) end tag is the last text at its suffix inside that very Bal (Ntry)
\* element, or empty if the element has none; and no later step changes a
\* scoped field of a record of the lists.
C17_ScopedFields ==
  /\ [][pc = "pass1" =>
         /\ current_balance' # current_balance => in_balance'
         /\ current_transaction' # current_transaction => in_transaction'
         /\ (Rd1.ev.t = "Start" /\ Rd1.ev.name = "Bal")
              => current_balance' = BalanceDefault
         /\ (Rd1.ev.t = "Start" /\ Rd1.ev.name = "Ntry")
              => current_transaction' = TransactionDefault]_vars
  /\ [][/\ Len(statement'.balances) > Len(statement.balances) =>
           LET n == Len(statement'.balances) IN
             /\ pc = "pass1" /\ Rd1.ev.t = "End" /\ Rd1.ev.name = "Bal"
             /\ n = Len(statement.balances) + 1
             /\ \A f \in BalanceScoped :
                  statement'.balances[n][f[1]]
                    = LastOr(MatchingTexts(ItemEndingAt(bal_src'[n]), pStmt,
                                           f[2]))
        /\ Len(statement'.transactions) > Len(statement.transactions) =>
           LET n == Len(statement'.transactions) IN
             /\ pc = "pass1" /\ Rd1.ev.t = "End" /\ Rd1.ev.name = "Ntry"
             /\ n = Len(statement.transactions) + 1
             /\ \A f \in TransactionScoped :
                  statement'.transactions[n][f[1]]
                    = LastOr(MatchingTexts(ItemEndingAt(tx_src'[n]), pStmt,
                                           f[2]))
        /\ \A n \in 1..Len(statement.balances) :
             /\ n <= Len(statement'.balances)
             /\ Scoped(statement'.balances[n], BalanceScoped)
                  = Scoped(statement.balances[n], BalanceScoped)
        /\ \A n \in 1..Len(statement.transactions) :
             /\ n <= Len(statement'.transactions)
             /\ Scoped(statement'.transactions[n], TransactionScoped)
                  = Scoped(statement.transactions[n], TransactionScoped)]_vars

\* C17 witness: the second record of a list has an empty scoped field that
\* is not empty in the first one.
C17_Witness ==
  /\ Parsed
  /\ \/ /\ Len(statement.balances) = 2
        /\ statement.balances[1].date # <<>>
        /\ statement.balances[2].date = <<>>
     \/ /\ Len(statement.transactions) = 2
        /\ statement.transactions[1].bank_tx_code # <<>>
        /\ statement.transactions[2].bank_tx_code = <<>>

pChrgs == <<"Chrgs", "TtlChrgsAndTaxAmt">>

\* C18: in pass 1 the charges of the accumulator change, other than by the
\* fresh accumulator of a Ntry start tag, only at a text event at a path
\* ending in Chrgs/TtlChrgsAndTaxAmt read while in_transaction and
\* in_charges are set, and become that text; the Chrgs end tag clears
\* in_charges and leaves in_transaction and in_balance as they are; and the
\* charges of a pushed transaction are the last such text of its Ntry
\* element, or absent if it has none.
C18_ChargesScoped ==
  /\ [](pc # "error" =>
         \A n \in 1..Len(statement.transactions) :
           LET texts == MatchingTexts(ItemEndingAt(tx_src[n]), pStmt, pChrgs)
           IN statement.transactions[n].charges
                = IF texts = <<>> THEN <<>> ELSE <<LastOr(texts)>>)
  /\ [][pc = "pass1" =>
         /\ (/\ current_transaction'.charges # current_transaction.charges
             /\ ~(Rd1.ev.t = "Start" /\ Rd1.ev.name = "Ntry"))
              => /\ in_transaction /\ in_charges
                 /\ Rd1.ev.t = "Text"
                 /\ PathEndsWith(current_path, pChrgs)
                 /\ current_transaction'.charges = <<Rd1.ev.text>>
         /\ (Rd1.ev.t = "End" /\ Rd1.ev.name = "Chrgs")
              => /\ ~in_charges'
                 /\ in_transaction' = in_transaction
                 /\ in_balance' = in_balance]_vars

\* C18 witness: a transaction with charges was pushed after its Chrgs end
\* tag had been read, while a Chrgs element inside a Bal element read
\* before left no charges.
C18_Witness ==
  /\ Parsed
  /\ Len(statement.transactions) >= 1
  /\ statement.transactions[1].charges = <<tAmtChrg>>
  /\ statement.transactions[1].additional_info # <<>>
  /\ Len(statement.balances) >= 1
  /\ bal_src[1] < tx_src[1]
  /\ MatchingTexts(ItemEndingAt(bal_src[1]), pStmt, pChrgs) # <<>>

\* ------------------------------------------------------------------------
\* The path stack and the end of the loops
\* ------------------------------------------------------------------------
\* The chain of open elements of file f after the tokens before position p.
OpenBefore(f, p) == OpenAfter(SubSeq(f, 1, p - 1))

\* C19 (as claimed): in pass 1 and in pass 2 the path stack is the chain of
\* open elements of the file after the events read so far, and it is empty
\* when a pass reads end of input.
C19_PathIsOpenChain ==
  /\ pc = "pass1" =>
       /\ current_path = OpenBefore(File(doc), pos)
       /\ Rd1.ev.t = "Eof" => current_path = <<>>
  /\ pc = "pass2" =>
       /\ current_path = OpenBefore(File(doc2), pos)
       /\ Rd2.ev.t = "Eof" => current_path = <<>>

\* main has ended: the conversion is complete, parse_camt_10 has returned
\* an error, or the process was aborted by a panic.
Ended == pc \in {"done", "error", "panic"}

\* C20: every step of a parsing loop consumes at least one token of the
\* finite file, a reader error met in pass 2 included, so pass 1 ends (at
\* end of input or with an error), pass 2 ends, and main ends.
C20_Terminates ==
  /\ [][/\ progress' # progress
         /\ (pc \in {"pass1", "pass2"} /\ pc' = pc)
              => (pos' > pos /\ pos' <= Len(File(doc2)) + 1)]_vars
  /\ <>(pc # "pass1")
  /\ [](pc = "pass2" => <>(pc \notin {"pass1", "pass2"}))
  /\ <>[]Ended

\* C20 witness: pass 2 has read past a reader error that pass 1 did not
\* meet, and main has ended with the conversion complete.
C20_Witness ==
  /\ pc = "done"
  /\ HasReaderError(doc2) /\ ~HasReaderError(doc)
  /\ Len(statement.balances) + Len(statement.transactions) > 0
====
